---- MODULE Spec2Model ----
(***************************************************************************)
(* The scene model of the 2D sprite engine: the entity store (World) with  *)
(* its parallel slot arrays, slot recycling, the parent hierarchy and its  *)
(* memoized resolution into world transforms, physics integration, and     *)
(* the per-frame instance list handed to the renderer.                     *)
(*                                                                         *)
(* Numbers.  An f32 is modelled as an exact rational <<n, d>> in lowest    *)
(* terms with d > 0.  Angles are measured in quarter turns (1 = pi/2       *)
(* radians), so that cos and sin are exact on the angles the model uses.   *)
(* Option<T> is <<>> (None) or <<v>> (Some(v)).  A Vec<T> is a sequence;   *)
(* the entity handle h names element h + 1 of each slot array.  A u32     *)
(* product is computed by 16-bit halves, with the wrapped value and the    *)
(* overflow that a build with overflow checks turns into a panic.  Beside  *)
(* the store the model holds the engine's atlas, clock, input and paused   *)
(* flag.                                                                   *)
(***************************************************************************)
EXTENDS Integers, Sequences, FiniteSets, TLC

VARIABLES world, instance_data, gpu_instances, aborted, pending, ticks, last,
          assets, overflow_checks, time, input, paused, returned

(* The engine's fields beside the store, the build's overflow checks and   *)
(* the value the last call returned.                                       *)
engine == <<assets, overflow_checks, time, input, paused, returned>>

vars == <<world, instance_data, gpu_instances, aborted, pending, ticks, last,
          assets, overflow_checks, time, input, paused, returned>>

----------------------------------------------------------------------------
(* Bounds of the model *)

(* Slots the store may grow to. *)
MaxSlots == 2

(* Store operations a caller makes between two frames. *)
MaxPending == 1

(* Fixed steps of a run. *)
MaxTicks == 2

(* Slots of the store in the runs that build link chains and cycles. *)
MaxLinkSlots == 3

(* The most fixed updates one frame runs. *)
MaxSteps == 2

(* Slots of the store in the runs over every operation. *)
MaxStoreSlots == 1

----------------------------------------------------------------------------
(* Option<T> *)

None == <<>>

Some(v) == <<v>>

IsSome(o) == o # <<>>

Unwrap(o) == o[1]

----------------------------------------------------------------------------
(* f32 arithmetic, exact on rationals *)

AbsInt(n) == IF n < 0 THEN -n ELSE n

RECURSIVE Gcd(_, _)
Gcd(a, b) == IF b = 0 THEN a ELSE Gcd(b, a % b)

Rat(n, d) ==
    LET s == IF d < 0 THEN -1 ELSE 1
        g == Gcd(AbsInt(n), AbsInt(d))
    IN  IF n = 0 THEN <<0, 1>> ELSE <<(s * n) \div g, (s * d) \div g>>

F(n) == <<n, 1>>

Add(a, b) == Rat(a[1] * b[2] + b[1] * a[2], a[2] * b[2])

Neg(a) == <<-a[1], a[2]>>

Sub(a, b) == Add(a, Neg(b))

Mul(a, b) == Rat(a[1] * b[1], a[2] * b[2])

Recip(a) == Rat(a[2], a[1])

Lt(a, b) == a[1] * b[2] < b[1] * a[2]

Le(a, b) == a[1] * b[2] <= b[1] * a[2]

AbsF(a) == <<AbsInt(a[1]), a[2]>>

Clamp(a, lo, hi) == IF Lt(a, lo) THEN lo ELSE IF Lt(hi, a) THEN hi ELSE a

IsInt(a) == a[2] = 1

(* cos and sin of an angle given in quarter turns *)
Cos(a) == CASE IsInt(a) /\ a[1] % 4 = 0 -> F(1)
            [] IsInt(a) /\ a[1] % 4 = 1 -> F(0)
            [] IsInt(a) /\ a[1] % 4 = 2 -> F(-1)
            [] IsInt(a) /\ a[1] % 4 = 3 -> F(0)

Sin(a) == CASE IsInt(a) /\ a[1] % 4 = 0 -> F(0)
            [] IsInt(a) /\ a[1] % 4 = 1 -> F(1)
            [] IsInt(a) /\ a[1] % 4 = 2 -> F(0)
            [] IsInt(a) /\ a[1] % 4 = 3 -> F(-1)

----------------------------------------------------------------------------
(* glam::Vec2 *)

Vec2(x, y) == [x |-> x, y |-> y]

V(n, m) == Vec2(F(n), F(m))

VAdd(a, b) == Vec2(Add(a.x, b.x), Add(a.y, b.y))

VMul(a, b) == Vec2(Mul(a.x, b.x), Mul(a.y, b.y))

VScale(a, s) == Vec2(Mul(a.x, s), Mul(a.y, s))

----------------------------------------------------------------------------
(* Transform, Body, Animation, Sprite *)

Transform(position, rotation, scale) ==
    [position |-> position, rotation |-> rotation, scale |-> scale]

Transform_new(position) == Transform(position, F(0), V(1, 1))

Body(velocity, damping, bounce) ==
    [velocity |-> velocity, damping |-> damping, bounce |-> bounce]

Animation_new(frames, fps) ==
    [frames |-> frames, fps |-> fps, timer |-> F(0), current |-> 0]

Sprite(size, tile_index, color, spin, animation) ==
    [size |-> size, tile_index |-> tile_index, color |-> color,
     spin |-> spin, animation |-> animation]

----------------------------------------------------------------------------
(* World: the entity store *)

World_new ==
    [transforms |-> <<>>, sprites |-> <<>>, bodies |-> <<>>,
     parents |-> <<>>, world_cache |-> <<>>, free |-> <<>>]

(* A push_new that leaves the cache array one entry short. *)
push_new_without_cache(w, transform, sprite, body) ==
    [w |-> [w EXCEPT !.transforms = Append(@, Some(transform)),
                     !.sprites = Append(@, Some(sprite)),
                     !.bodies = Append(@, body),
                     !.parents = Append(@, None)],
     entity |-> Len(w.transforms)]

push_new(w, transform, sprite, body) ==
    [w |-> [w EXCEPT !.transforms = Append(@, Some(transform)),
                     !.sprites = Append(@, Some(sprite)),
                     !.bodies = Append(@, body),
                     !.parents = Append(@, None),
                     !.world_cache = Append(@, None)],
     entity |-> Len(w.transforms)]

(* A spawn that forgets to reset the parent link of a recycled slot. *)
spawn_keeping_parent(w, transform, sprite, body) ==
    IF w.free # <<>>
    THEN LET entity == w.free[Len(w.free)]
             popped == [w EXCEPT !.free = SubSeq(@, 1, Len(@) - 1)]
             index == entity
         IN  IF index >= Len(popped.transforms)
             THEN push_new(popped, transform, sprite, body)
             ELSE [w |-> [popped EXCEPT !.transforms[index + 1] = Some(transform),
                                        !.sprites[index + 1] = Some(sprite),
                                        !.bodies[index + 1] = body,
                                        !.world_cache[index + 1] = None],
                   entity |-> entity]
    ELSE push_new(w, transform, sprite, body)

(* A spawn that recycles the handle freed first, not the one freed last. *)
spawn_oldest_first(w, transform, sprite, body) ==
    IF w.free # <<>>
    THEN LET entity == w.free[1]
             popped == [w EXCEPT !.free = Tail(@)]
             index == entity
         IN  IF index >= Len(popped.transforms)
             THEN push_new(popped, transform, sprite, body)
             ELSE [w |-> [popped EXCEPT !.transforms[index + 1] = Some(transform),
                                        !.sprites[index + 1] = Some(sprite),
                                        !.bodies[index + 1] = body,
                                        !.parents[index + 1] = None,
                                        !.world_cache[index + 1] = None],
                   entity |-> entity]
    ELSE push_new(w, transform, sprite, body)

(* A spawn that, recycling a handle, also removes the parent links that    *)
(* name it.                                                                *)
spawn_severing_links(w, transform, sprite, body) ==
    IF w.free # <<>>
    THEN LET entity == w.free[Len(w.free)]
             popped == [w EXCEPT !.free = SubSeq(@, 1, Len(@) - 1)]
             index == entity
         IN  IF index >= Len(popped.transforms)
             THEN push_new(popped, transform, sprite, body)
             ELSE [w |-> [popped EXCEPT !.transforms[index + 1] = Some(transform),
                                        !.sprites[index + 1] = Some(sprite),
                                        !.bodies[index + 1] = body,
                                        !.parents = [i \in 1..Len(@) |->
                                                       IF i = index + 1 \/ @[i] = Some(entity)
                                                       THEN None ELSE @[i]],
                                        !.world_cache[index + 1] = None],
                   entity |-> entity]
    ELSE push_new(w, transform, sprite, body)

spawn_sprite_with_body(w, transform, sprite, body) ==
    IF w.free # <<>>
    THEN LET entity == w.free[Len(w.free)]
             popped == [w EXCEPT !.free = SubSeq(@, 1, Len(@) - 1)]
             index == entity
         IN  IF index >= Len(popped.transforms)
             THEN push_new(popped, transform, sprite, body)
             ELSE [w |-> [popped EXCEPT !.transforms[index + 1] = Some(transform),
                                        !.sprites[index + 1] = Some(sprite),
                                        !.bodies[index + 1] = body,
                                        !.parents[index + 1] = None,
                                        !.world_cache[index + 1] = None],
                   entity |-> entity]
    ELSE push_new(w, transform, sprite, body)

spawn_sprite(w, transform, sprite) ==
    spawn_sprite_with_body(w, transform, sprite, None)

(* A set_parent that invalidates the whole cache, not the child's entry. *)
set_parent_clearing_cache(w, child, parent) ==
    LET index == child
    IN  IF index >= Len(w.parents)
        THEN w
        ELSE [w EXCEPT !.parents[index + 1] = Some(parent),
                       !.world_cache = [i \in 1..Len(@) |-> None]]

set_parent(w, child, parent) ==
    LET index == child
    IN  IF index >= Len(w.parents)
        THEN w
        ELSE [w EXCEPT !.parents[index + 1] = Some(parent),
                       !.world_cache[index + 1] = None]

(* An accessor that hands out the slot of every handle in range, live or   *)
(* not.                                                                    *)
get_transform_mut_unfiltered(w, entity) ==
    IF entity < Len(w.transforms)
    THEN Some(entity)
    ELSE None

(* The reference get_transform_mut returns: the handle of the slot whose   *)
(* Transform the caller may write, or None.                                *)
get_transform_mut(w, entity) ==
    IF entity < Len(w.transforms) /\ IsSome(w.transforms[entity + 1])
    THEN Some(entity)
    ELSE None

get_sprite_mut(w, entity) ==
    IF entity < Len(w.sprites) /\ IsSome(w.sprites[entity + 1])
    THEN Some(entity)
    ELSE None

(* The destroy operation the store reserves: a free slot has all its       *)
(* fields cleared and its handle is pushed on the free list.               *)
destroy(w, entity) ==
    [w EXCEPT !.transforms[entity + 1] = None,
              !.sprites[entity + 1] = None,
              !.bodies[entity + 1] = None,
              !.parents[entity + 1] = None,
              !.world_cache[entity + 1] = None,
              !.free = Append(@, entity)]

----------------------------------------------------------------------------
(* Physics integration *)

(* The factor without its clamp. *)
damping_factor_unclamped(body, dt) ==
    Sub(F(1), Mul(body.damping, dt))

damping_factor(body, dt) ==
    Clamp(Sub(F(1), Mul(body.damping, dt)), F(0), F(1))

(* A collision that reflects the velocity it finds instead of forcing it   *)
(* inward.                                                                 *)
bounce_axis_reflecting(p, v, b, bounce) ==
    IF Lt(p, Neg(b))
    THEN [p |-> Neg(b), v |-> Mul(Neg(v), bounce)]
    ELSE IF Lt(b, p)
         THEN [p |-> b, v |-> Mul(Neg(v), bounce)]
         ELSE [p |-> p, v |-> v]

(* A collision that handles the lower bound only. *)
bounce_axis_lower_only(p, v, b, bounce) ==
    IF Lt(p, Neg(b))
    THEN [p |-> Neg(b), v |-> Mul(AbsF(v), bounce)]
    ELSE [p |-> p, v |-> v]

(* One axis of the boundary collision: position p, velocity v, bound b.    *)
bounce_axis(p, v, b, bounce) ==
    IF Lt(p, Neg(b))
    THEN [p |-> Neg(b), v |-> Mul(AbsF(v), bounce)]
    ELSE IF Lt(b, p)
         THEN [p |-> b, v |-> Mul(Neg(AbsF(v)), bounce)]
         ELSE [p |-> p, v |-> v]

(* The loop body of step_physics for one slot holding both components.     *)
step_body(transform, body, dt, bounds) ==
    LET damping == damping_factor(body, dt)
        velocity == VScale(body.velocity, damping)
        position == VAdd(transform.position, VScale(velocity, dt))
        ax == bounce_axis(position.x, velocity.x, bounds.x, body.bounce)
        ay == bounce_axis(position.y, velocity.y, bounds.y, body.bounce)
    IN  [transform |-> [transform EXCEPT !.position = Vec2(ax.p, ay.p)],
         body |-> [body EXCEPT !.velocity = Vec2(ax.v, ay.v)]]

step_physics(w, dt, bounds) ==
    LET both(i) == IsSome(w.transforms[i]) /\ IsSome(w.bodies[i])
        out(i) == step_body(Unwrap(w.transforms[i]), Unwrap(w.bodies[i]), dt, bounds)
    IN  [w EXCEPT
           !.transforms = [i \in 1..Len(w.transforms) |->
                             IF both(i) THEN Some(out(i).transform) ELSE w.transforms[i]],
           !.bodies = [i \in 1..Len(w.transforms) |->
                             IF both(i) THEN Some(out(i).body) ELSE w.bodies[i]]]

----------------------------------------------------------------------------
(* Animation advance *)

(* A frame advance that branches once instead of looping. *)
advance_frames_once(timer, current, frame_time, len) ==
    IF Le(frame_time, timer)
    THEN [timer |-> Sub(timer, frame_time), current |-> (current + 1) % len]
    ELSE [timer |-> timer, current |-> current]

(* The while loop of Animation::update. *)
RECURSIVE advance_frames(_, _, _, _)
advance_frames(timer, current, frame_time, len) ==
    IF Le(frame_time, timer)
    THEN advance_frames(Sub(timer, frame_time), (current + 1) % len, frame_time, len)
    ELSE [timer |-> timer, current |-> current]

(* An update whose guard stops the clock of an animation with fps <= 0     *)
(* but still emits its current frame.                                      *)
Animation_update_emitting(animation, dt) ==
    IF animation.frames = <<>>
    THEN [animation |-> animation, frame |-> None]
    ELSE IF Le(animation.fps, F(0))
    THEN [animation |-> animation,
          frame |-> Some(animation.frames[animation.current + 1])]
    ELSE LET frame_time == Recip(animation.fps)
             adv == advance_frames(Add(animation.timer, dt), animation.current,
                                   frame_time, Len(animation.frames))
         IN  [animation |-> [animation EXCEPT !.timer = adv.timer,
                                              !.current = adv.current],
              frame |-> Some(animation.frames[adv.current + 1])]

(* An update that emits a frame only when a frame step occurred. *)
Animation_update_on_step(animation, dt) ==
    IF animation.frames = <<>> \/ Le(animation.fps, F(0))
    THEN [animation |-> animation, frame |-> None]
    ELSE LET frame_time == Recip(animation.fps)
             adv == advance_frames(Add(animation.timer, dt), animation.current,
                                   frame_time, Len(animation.frames))
         IN  [animation |-> [animation EXCEPT !.timer = adv.timer,
                                              !.current = adv.current],
              frame |-> IF adv.current = animation.current
                        THEN None
                        ELSE Some(animation.frames[adv.current + 1])]

Animation_update(animation, dt) ==
    IF animation.frames = <<>> \/ Le(animation.fps, F(0))
    THEN [animation |-> animation, frame |-> None]
    ELSE LET frame_time == Recip(animation.fps)
             adv == advance_frames(Add(animation.timer, dt), animation.current,
                                   frame_time, Len(animation.frames))
         IN  [animation |-> [animation EXCEPT !.timer = adv.timer,
                                              !.current = adv.current],
              frame |-> Some(animation.frames[adv.current + 1])]

(* The loop body of update_animations for one slot holding both components. *)
animate_slot(transform, sprite, dt) ==
    LET upd == IF IsSome(sprite.animation)
               THEN Animation_update(Unwrap(sprite.animation), dt)
               ELSE [animation |-> None, frame |-> None]
        animated == IF IsSome(sprite.animation)
                    THEN [sprite EXCEPT !.animation = Some(upd.animation),
                                        !.tile_index = IF IsSome(upd.frame)
                                                       THEN Unwrap(upd.frame) ELSE @]
                    ELSE sprite
    IN  [transform |-> [transform EXCEPT !.rotation = Add(@, Mul(sprite.spin, dt))],
         sprite |-> animated]

update_animations(w, dt) ==
    LET both(i) == IsSome(w.transforms[i]) /\ IsSome(w.sprites[i])
        out(i) == animate_slot(Unwrap(w.transforms[i]), Unwrap(w.sprites[i]), dt)
    IN  [w EXCEPT
           !.transforms = [i \in 1..Len(w.transforms) |->
                             IF both(i) THEN Some(out(i).transform) ELSE w.transforms[i]],
           !.sprites = [i \in 1..Len(w.transforms) |->
                             IF both(i) THEN Some(out(i).sprite) ELSE w.sprites[i]]]

----------------------------------------------------------------------------
(* Hierarchy resolution *)

rotate_vec2(value, angle) ==
    LET c == Cos(angle)
        s == Sin(angle)
    IN  Vec2(Sub(Mul(value.x, c), Mul(value.y, s)),
             Add(Mul(value.x, s), Mul(value.y, c)))

combine_transforms(parent, local) ==
    LET scaled == VMul(local.position, parent.scale)
        rotated == rotate_vec2(scaled, parent.rotation)
    IN  Transform(VAdd(parent.position, rotated),
                  Add(parent.rotation, local.rotation),
                  VMul(parent.scale, local.scale))

(* The result of a step that follows the nested or earlier call `first`:   *)
(* `stored` lists, in order, the indices whose cache entry was computed    *)
(* and written.                                                            *)
Then(first, second) == [second EXCEPT !.stored = first.stored \o @]

(* A resolver that returns the value without storing it in the cache. *)
cache_store_unsaved(w, index, value) ==
    [w |-> w, result |-> Some(value), overflow |-> FALSE, stored |-> <<index>>]

(* A resolver that stores the value in the Transform slot, not the cache. *)
cache_store_in_transforms(w, index, value) ==
    [w |-> [w EXCEPT !.transforms[index + 1] = Some(value)],
     result |-> Some(value), overflow |-> FALSE, stored |-> <<index>>]

(* compute_world stores the resolved value in the cache and returns it.    *)
cache_store(w, index, value) ==
    [w |-> [w EXCEPT !.world_cache[index + 1] = Some(value)],
     result |-> Some(value), overflow |-> FALSE, stored |-> <<index>>]

(* A resolver without the nested call: it composes with the parent only    *)
(* when the parent's cache entry is already filled.                        *)
compute_world_unordered(w, index, depth) ==
    IF index >= Len(w.transforms)
    THEN [w |-> w, result |-> None, overflow |-> FALSE, stored |-> <<>>]
    ELSE IF IsSome(w.world_cache[index + 1])
    THEN [w |-> w, result |-> w.world_cache[index + 1], overflow |-> FALSE,
          stored |-> <<>>]
    ELSE IF ~IsSome(w.transforms[index + 1])
    THEN [w |-> w, result |-> None, overflow |-> FALSE, stored |-> <<>>]
    ELSE LET local == Unwrap(w.transforms[index + 1])
             link == w.parents[index + 1]
             known == IF IsSome(link) /\ Unwrap(link) < Len(w.transforms)
                      THEN w.world_cache[Unwrap(link) + 1]
                      ELSE None
             value == IF IsSome(link) /\ Unwrap(link) # index /\ IsSome(known)
                      THEN combine_transforms(Unwrap(known), local)
                      ELSE local
         IN  [w |-> [w EXCEPT !.world_cache[index + 1] = Some(value)],
              result |-> Some(value), overflow |-> FALSE, stored |-> <<index>>]

(* A resolver that never looks a value up in the cache before computing it. *)
RECURSIVE compute_world_uncached(_, _, _)
compute_world_uncached(w, index, depth) ==
    IF index >= Len(w.transforms)
    THEN [w |-> w, result |-> None, overflow |-> FALSE, stored |-> <<>>]
    ELSE IF ~IsSome(w.transforms[index + 1])
    THEN [w |-> w, result |-> None, overflow |-> FALSE, stored |-> <<>>]
    ELSE LET local == Unwrap(w.transforms[index + 1])
             link == IF index < Len(w.parents) THEN w.parents[index + 1] ELSE None
         IN  IF ~IsSome(link) \/ link = Some(index)
             THEN cache_store(w, index, local)
             ELSE IF depth = 0
             THEN [w |-> w, result |-> None, overflow |-> TRUE, stored |-> <<>>]
             ELSE LET up == compute_world_uncached(w, Unwrap(link), depth - 1)
                  IN  IF up.overflow
                      THEN [w |-> up.w, result |-> None, overflow |-> TRUE,
                            stored |-> up.stored]
                      ELSE IF IsSome(up.result)
                      THEN Then(up, cache_store(up.w, index,
                               combine_transforms(Unwrap(up.result), local)))
                      ELSE Then(up, cache_store(up.w, index, local))

(* A resolver with a depth bound: a chain longer than the store falls      *)
(* back to the local transform.                                            *)
RECURSIVE compute_world_bounded(_, _, _)
compute_world_bounded(w, index, depth) ==
    IF index >= Len(w.transforms)
    THEN [w |-> w, result |-> None, overflow |-> FALSE, stored |-> <<>>]
    ELSE IF IsSome(w.world_cache[index + 1])
    THEN [w |-> w, result |-> w.world_cache[index + 1], overflow |-> FALSE,
          stored |-> <<>>]
    ELSE IF ~IsSome(w.transforms[index + 1])
    THEN [w |-> w, result |-> None, overflow |-> FALSE, stored |-> <<>>]
    ELSE LET local == Unwrap(w.transforms[index + 1])
             link == IF index < Len(w.parents) THEN w.parents[index + 1] ELSE None
         IN  IF ~IsSome(link) \/ link = Some(index) \/ depth = 0
             THEN cache_store(w, index, local)
             ELSE LET up == compute_world_bounded(w, Unwrap(link), depth - 1)
                  IN  IF IsSome(up.result)
                      THEN Then(up, cache_store(up.w, index,
                               combine_transforms(Unwrap(up.result), local)))
                      ELSE Then(up, cache_store(up.w, index, local))

(* compute_world(index) with `depth` nested calls still allowed.  A chain  *)
(* of nested calls longer than the number of slots names some index twice; *)
(* its cache entry is still absent at the second visit (it is written only *)
(* after the nested call returns), so the same chain repeats without end   *)
(* and the call stack overflows: overflow = TRUE.                          *)
RECURSIVE compute_world(_, _, _)
compute_world(w, index, depth) ==
    IF index >= Len(w.transforms)
    THEN [w |-> w, result |-> None, overflow |-> FALSE, stored |-> <<>>]
    ELSE IF IsSome(w.world_cache[index + 1])
    THEN [w |-> w, result |-> w.world_cache[index + 1], overflow |-> FALSE,
          stored |-> <<>>]
    ELSE IF ~IsSome(w.transforms[index + 1])
    THEN [w |-> w, result |-> None, overflow |-> FALSE, stored |-> <<>>]
    ELSE LET local == Unwrap(w.transforms[index + 1])
             link == IF index < Len(w.parents) THEN w.parents[index + 1] ELSE None
         IN  IF ~IsSome(link)
             THEN cache_store(w, index, local)
             ELSE LET parent_index == Unwrap(link)
                  IN  IF parent_index = index
                      THEN cache_store(w, index, local)
                      ELSE IF depth = 0
                      THEN [w |-> w, result |-> None, overflow |-> TRUE, stored |-> <<>>]
                      ELSE LET up == compute_world(w, parent_index, depth - 1)
                           IN  IF up.overflow
                               THEN [w |-> up.w, result |-> None, overflow |-> TRUE,
                                     stored |-> up.stored]
                               ELSE IF IsSome(up.result)
                               THEN Then(up, cache_store(up.w, index,
                                        combine_transforms(Unwrap(up.result), local)))
                               ELSE Then(up, cache_store(up.w, index, local))

(* The loop `for index in 0..len` of build_world_transforms, from index.   *)
RECURSIVE resolve_from(_, _)
resolve_from(w, index) ==
    IF index >= Len(w.transforms)
    THEN [w |-> w, overflow |-> FALSE, stored |-> <<>>]
    ELSE LET r == compute_world(w, index, Len(w.transforms))
         IN  IF r.overflow
             THEN [w |-> r.w, overflow |-> TRUE, stored |-> r.stored]
             ELSE Then(r, resolve_from(r.w, index + 1))

build_world_transforms(w) ==
    resolve_from([w EXCEPT !.world_cache = [i \in 1..Len(w.world_cache) |-> None]], 0)

(* The visitor loop of for_each_sprite_world, from index: the calls        *)
(* f(index, world, sprite) it makes, in order.                             *)
RECURSIVE visit_from(_, _)
visit_from(w, index) ==
    IF index >= Len(w.transforms)
    THEN <<>>
    ELSE IF IsSome(w.world_cache[index + 1]) /\ IsSome(w.sprites[index + 1])
    THEN <<[entity |-> index,
            world |-> Unwrap(w.world_cache[index + 1]),
            sprite |-> Unwrap(w.sprites[index + 1])]>> \o visit_from(w, index + 1)
    ELSE visit_from(w, index + 1)

for_each_sprite_world(w) ==
    LET built == build_world_transforms(w)
    IN  [w |-> built.w,
         visits |-> IF built.overflow THEN <<>> ELSE visit_from(built.w, 0),
         overflow |-> built.overflow]

----------------------------------------------------------------------------
(* Atlas and the instance record *)

DEFAULT_ATLAS_COLUMNS == 2

DEFAULT_ATLAS_ROWS == 2

DEFAULT_ATLAS_TILE_SIZE == 32

MaxU32(a, b) == IF a < b THEN b ELSE a

(* 2^16.  A u32 is two 16-bit halves. *)
Half == 65536

(* a * b on u32, for operands below 2^31.  The product is computed by      *)
(* halves, high * 2^32 + mid * 2^16 + low: "value" is what a build without *)
(* overflow checks keeps (the product modulo 2^32), "overflow" says that   *)
(* the product does not fit, which is where a build with overflow checks   *)
(* panics.                                                                 *)
u32_mul(a, b) ==
    LET ah == a \div Half
        al == a % Half
        bh == b \div Half
        bl == b % Half
        low == al * bl
        cross == ah * bl + al * bh + (low \div Half)
        high == ah * bh + (cross \div Half)
    IN  [value |-> (cross % Half) * Half + (low % Half), overflow |-> high > 0]

Atlas_from_config(columns, rows, tile_size) ==
    [columns |-> MaxU32(columns, 1), rows |-> MaxU32(rows, 1),
     tile_size |-> MaxU32(tile_size, 1)]

(* The count a build without overflow checks computes. *)
Atlas_tile_count(atlas) == u32_mul(atlas.columns, atlas.rows).value

(* tile_count panics: the build checks overflow and the product overflows. *)
Atlas_tile_count_panics(atlas, checks) ==
    checks /\ u32_mul(atlas.columns, atlas.rows).overflow

Atlas_uv_for_index(atlas, index) ==
    LET count == MaxU32(Atlas_tile_count(atlas), 1)
        idx == index % count
        tile_x == idx % atlas.columns
        tile_y == idx \div atlas.columns
        tile_w == Rat(1, atlas.columns)
        tile_h == Rat(1, atlas.rows)
    IN  [min |-> Vec2(Mul(F(tile_x), tile_w), Mul(F(tile_y), tile_h)),
         max |-> Vec2(Mul(F(tile_x + 1), tile_w),
                      Mul(F(tile_y + 1), tile_h))]

InstanceRaw_from_components(transform, sprite, atlas) ==
    LET uv == Atlas_uv_for_index(atlas, sprite.tile_index)
        size == VMul(sprite.size, transform.scale)
    IN  [position |-> <<transform.position.x, transform.position.y>>,
         size |-> <<size.x, size.y>>,
         uv_min |-> <<uv.min.x, uv.min.y>>,
         uv_max |-> <<uv.max.x, uv.max.y>>,
         rotation |-> transform.rotation,
         color |-> sprite.color]

(* The atlas the assets hold when no configuration file overrides it. *)
atlas == Atlas_from_config(DEFAULT_ATLAS_COLUMNS, DEFAULT_ATLAS_ROWS,
                           DEFAULT_ATLAS_TILE_SIZE)

(* A frame that does not clear the list before the visitor fills it. *)
collect_instances_appending(old, visits) ==
    old \o [k \in 1..Len(visits) |->
              InstanceRaw_from_components(visits[k].world, visits[k].sprite, atlas)]

(* redraw, from instance_data.clear() to update_instances: the list is     *)
(* emptied, one record is pushed per visitor call, and the list is handed  *)
(* to the renderer.                                                        *)
collect_instances(old, visits) ==
    LET cleared == SubSeq(old, 1, 0)
    IN  cleared \o [k \in 1..Len(visits) |->
                      InstanceRaw_from_components(visits[k].world, visits[k].sprite, atlas)]

----------------------------------------------------------------------------
(* The frame *)

(* fixed_update with the movement keys as its only input: nothing when the *)
(* engine is paused; otherwise the player's position is moved by `nudge`   *)
(* through get_transform_mut, then step_physics, then update_animations.   *)
fixed_update(w, player, dt, bounds, is_paused, nudge) ==
    IF is_paused
    THEN w
    ELSE LET moved == IF IsSome(get_transform_mut(w, player))
                      THEN [w EXCEPT !.transforms[player + 1] =
                              Some([Unwrap(@) EXCEPT !.position = VAdd(@, nudge)])]
                      ELSE w
         IN  update_animations(step_physics(moved, dt, bounds), dt)

(* The loop `for _ in 0..steps` of redraw. *)
RECURSIVE fixed_updates(_, _, _, _, _, _, _)
fixed_updates(w, player, steps, dt, bounds, is_paused, nudge) ==
    IF steps = 0
    THEN w
    ELSE fixed_updates(fixed_update(w, player, dt, bounds, is_paused, nudge),
                       player, steps - 1, dt, bounds, is_paused, nudge)

(* A frame that resolves the hierarchy and collects the records before it  *)
(* runs its fixed updates.                                                 *)
redraw_resolving_first(w, old, player, steps, dt, bounds, is_paused, nudge) ==
    LET pass == for_each_sprite_world(w)
    IN  [w |-> fixed_updates(pass.w, player, steps, dt, bounds, is_paused, nudge),
         instance_data |-> collect_instances(old, pass.visits),
         overflow |-> pass.overflow]

(* redraw: the frame's fixed updates, then the resolution pass that fills  *)
(* the instance list, which update_instances then receives.                *)
redraw(w, old, player, steps, dt, bounds, is_paused, nudge) ==
    LET stepped == fixed_updates(w, player, steps, dt, bounds, is_paused, nudge)
        pass == for_each_sprite_world(stepped)
    IN  [w |-> pass.w,
         instance_data |-> collect_instances(old, pass.visits),
         overflow |-> pass.overflow]

----------------------------------------------------------------------------
(* Inputs of the operations *)

SpriteStill ==
    Sprite(V(2, 2), 0, <<F(1), F(1), F(1), F(1)>>, F(0), None)

SpriteAnimated ==
    Sprite(V(1, 1), 1, <<F(1), F(0), F(0), F(1)>>, F(2),
           Some(Animation_new(<<0, 1, 2, 3>>, F(2))))

BodyInput == Body(V(4, -2), Rat(1, 2), Rat(1, 2))

(* The (transform, sprite, body) triples the spawns are called with. *)
SpawnInputs ==
    { [transform |-> Transform_new(V(10, 0)), sprite |-> SpriteStill, body |-> None],
      [transform |-> Transform_new(V(5, 0)), sprite |-> SpriteAnimated,
       body |-> Some(BodyInput)] }

(* The value a caller writes through get_transform_mut. *)
TransformInputs == { Transform(V(0, 3), F(1), V(2, -1)) }

(* Handles callers pass: every slot the store can hold, and one beyond.    *)
Handles == 0..MaxSlots

(* The engine writes through get_transform_mut only for its player, the    *)
(* first entity it spawns.                                                 *)
PlayerHandles == { 0 }

(* Spawns of the runs that build link chains and cycles. *)
LinkSpawnInputs ==
    { [transform |-> Transform(V(1, 2), F(1), V(2, 1)), sprite |-> SpriteStill,
       body |-> None] }

LinkHandles == 0..MaxLinkSlots

(* Inputs of the fixed step: time steps, bounds, and the entity stepped.   *)
FixedDts == { Rat(1, 4), Rat(1, 2), F(1) }

BoundsInputs == { V(100, 100) }

PhysicsPositions == { V(105, 0), V(0, 0), V(-99, 98) }

PhysicsBodies ==
    { Body(v, d, b) : v \in { V(10, 0), V(-10, 0), V(-8, 12) },
                      d \in { F(0), Rat(1, 2), F(2), F(10) },
                      b \in { Rat(1, 2), F(1) } }

----------------------------------------------------------------------------
(* The state machine *)

(* `last` is the call that was made last: its name, its argument (the     *)
(* handle a spawn returned or an accessor was given, the dt of a fixed     *)
(* step or an animation update, the fixed updates of a frame), whether a   *)
(* spawn recycled a freed slot, and whether that slot still held a parent  *)
(* link, a body or a cache entry before it.                                *)
Called(op, arg, reused, stale) ==
    [op |-> op, arg |-> arg, reused |-> reused, stale |-> stale]

(* 1 / 60 of a second. *)
FIXED_DT == Rat(1, 60)

(* The longest delta one frame adds to the accumulator. *)
MAX_DT == Rat(1, 4)

Time_new(fixed_dt) == [accumulator |-> F(0), fixed_dt |-> fixed_dt]

InputState_new == [pressed |-> {}, just_pressed |-> {}, just_released |-> {}]

(* An advance that caps the delta at twice MAX_DT. *)
Time_advance_capped_late(t, elapsed) ==
    LET cap == Add(MAX_DT, MAX_DT)
        dt == IF Lt(elapsed, cap) THEN elapsed ELSE cap
    IN  [time |-> [t EXCEPT !.accumulator = Add(@, dt)], dt |-> dt]

(* advance: `elapsed` is the time since the last frame. *)
Time_advance(t, elapsed) ==
    LET dt == IF Lt(elapsed, MAX_DT) THEN elapsed ELSE MAX_DT
    IN  [time |-> [t EXCEPT !.accumulator = Add(@, dt)], dt |-> dt]

(* The loop of consume_fixed_steps, entered with the steps counted so far. *)
RECURSIVE consume_from(_, _)
consume_from(t, steps) ==
    IF Le(t.fixed_dt, t.accumulator)
    THEN consume_from([t EXCEPT !.accumulator = Sub(@, t.fixed_dt)], steps + 1)
    ELSE [time |-> t, steps |-> steps]

Time_consume_fixed_steps(t) == consume_from(t, 0)

InputState_set_key(in, key, pressed) ==
    IF pressed
    THEN IF key \notin in.pressed
         THEN [in EXCEPT !.pressed = @ \cup {key}, !.just_pressed = @ \cup {key}]
         ELSE in
    ELSE IF key \in in.pressed
         THEN [in EXCEPT !.pressed = @ \ {key}, !.just_released = @ \cup {key}]
         ELSE in

InputState_is_just_pressed(in, key) == key \in in.just_pressed

InputState_finish_frame(in) ==
    [in EXCEPT !.just_pressed = {}, !.just_released = {}]

(* The engine after construction, with the default atlas, whose tile count *)
(* overflows in no build.                                                  *)
Engine_new ==
    /\ assets = [atlas |-> atlas]
    /\ overflow_checks = FALSE
    /\ time = Time_new(FIXED_DT)
    /\ input = InputState_new
    /\ paused = FALSE
    /\ returned = None

Init ==
    /\ world = World_new
    /\ instance_data = <<>>
    /\ gpu_instances = <<>>
    /\ aborted = FALSE
    /\ pending = 0
    /\ ticks = 0
    /\ Engine_new
    /\ last = Called("new", 0, FALSE, FALSE)

Live(w, h) == h < Len(w.transforms) /\ IsSome(w.transforms[h + 1])

Residue(w, h) ==
    /\ h < Len(w.transforms)
    /\ IsSome(w.parents[h + 1]) \/ IsSome(w.bodies[h + 1]) \/ IsSome(w.world_cache[h + 1])

(* A store operation of the caller, between two frames. *)
Call(w, call) ==
    /\ ~aborted
    /\ pending < MaxPending
    /\ world' = w
    /\ pending' = pending + 1
    /\ last' = call
    /\ UNCHANGED <<instance_data, gpu_instances, aborted, ticks, engine>>

Spawn(in, slots) ==
    /\ world.free # <<>> \/ Len(world.transforms) < slots
    /\ LET out == spawn_sprite_with_body(world, in.transform, in.sprite, in.body)
       IN  Call(out.w, Called("spawn", out.entity, out.entity < Len(world.transforms),
                              Residue(world, out.entity)))

Destroy(h) ==
    /\ Live(world, h)
    /\ Call(destroy(world, h), Called("destroy", 0, FALSE, FALSE))

SetParent(child, parent) ==
    Call(set_parent(world, child, parent), Called("set_parent", 0, FALSE, FALSE))

(* A caller takes get_transform_mut(h) and, when it is present, writes t. *)
WriteTransform(h, t) ==
    Call(IF IsSome(get_transform_mut(world, h))
         THEN [world EXCEPT !.transforms[h + 1] = Some(t)]
         ELSE world,
         Called("get_transform_mut", h, FALSE, FALSE))

(* The tail of fixed_update: step_physics, then update_animations. *)
FixedStep(dt, bounds) ==
    /\ ~aborted
    /\ ticks < MaxTicks
    /\ world' = update_animations(step_physics(world, dt, bounds), dt)
    /\ ticks' = ticks + 1
    /\ last' = Called("fixed_update", dt, FALSE, FALSE)
    /\ UNCHANGED <<instance_data, gpu_instances, aborted, pending, engine>>

(* The rendering part of a frame.  A resolution pass that overflows the    *)
(* call stack ends the process: nothing reaches the renderer.              *)
RenderFrame ==
    /\ ~aborted
    /\ UNCHANGED engine
    /\ last' = Called("for_each_sprite_world", 0, FALSE, FALSE)
    /\ LET pass == for_each_sprite_world(world)
       IN  IF pass.overflow
           THEN /\ aborted' = TRUE
                /\ UNCHANGED <<world, instance_data, gpu_instances, pending, ticks>>
           ELSE /\ world' = pass.w
                /\ instance_data' = collect_instances(instance_data, pass.visits)
                /\ gpu_instances' = instance_data'
                /\ pending' = 0
                /\ UNCHANGED <<aborted, ticks>>

(* The store and the hierarchy under every store operation. *)
Next ==
    \/ \E in \in SpawnInputs : Spawn(in, MaxSlots)
    \/ \E h \in Handles : Destroy(h)
    \/ \E c \in Handles, p \in Handles : SetParent(c, p)
    \/ \E h \in PlayerHandles, t \in TransformInputs : WriteTransform(h, t)
    \/ RenderFrame

Spec == Init /\ [][Next]_vars

(* Link chains and cycles over a larger store. *)
NextLinks ==
    \/ \E in \in LinkSpawnInputs : Spawn(in, MaxLinkSlots)
    \/ \E c \in LinkHandles, p \in LinkHandles : SetParent(c, p)
    \/ RenderFrame

SpecLinks == Init /\ [][NextLinks]_vars

(* Fixed steps over a store of two entities: a still one without a body    *)
(* and one with a body drawn from the physics inputs.                      *)
InitFixed ==
    /\ \E p \in PhysicsPositions, b \in PhysicsBodies :
         world = spawn_sprite_with_body(
                     spawn_sprite(World_new, Transform_new(V(10, 0)), SpriteStill).w,
                     Transform_new(p), SpriteAnimated, Some(b)).w
    /\ instance_data = <<>>
    /\ gpu_instances = <<>>
    /\ aborted = FALSE
    /\ pending = 0
    /\ ticks = 0
    /\ Engine_new
    /\ last = Called("spawn", 1, FALSE, FALSE)

NextFixed ==
    \/ \E dt \in FixedDts, b \in BoundsInputs : FixedStep(dt, b)
    \/ RenderFrame

SpecFixed == InitFixed /\ [][NextFixed]_vars

(* Animations: frame sequences (empty, one frame, three, four) and rates   *)
(* (negative, zero, two and four frames a second).                         *)
AnimationInputs ==
    { Animation_new(frames, fps) :
        frames \in { <<>>, <<7>>, <<3, 1, 2>>, <<0, 1, 2, 3>> },
        fps \in { F(-1), F(0), F(2), F(4) } }

(* The tile index a sprite is created with, and the one a caller writes.   *)
AnimSprites ==
    { Sprite(V(1, 1), 9, <<F(1), F(1), F(1), F(1)>>, F(0), a) :
        a \in { None } \cup { Some(x) : x \in AnimationInputs } }

TileInputs == { 8 }

AnimDts == { Rat(1, 4), Rat(1, 2), F(1) }

(* A caller takes get_sprite_mut(h) and, when it is present, writes the    *)
(* sprite's tile_index.                                                    *)
WriteSprite(h, tile) ==
    Call(IF IsSome(get_sprite_mut(world, h))
         THEN [world EXCEPT !.sprites[h + 1] =
                               Some([Unwrap(@) EXCEPT !.tile_index = tile])]
         ELSE world,
         Called("get_sprite_mut", h, FALSE, FALSE))

Animate(dt) ==
    /\ ~aborted
    /\ world' = update_animations(world, dt)
    /\ last' = Called("update_animations", dt, FALSE, FALSE)
    /\ UNCHANGED <<instance_data, gpu_instances, aborted, pending, ticks, engine>>

(* Animation updates over a store of one sprite. *)
InitAnim ==
    /\ \E s \in AnimSprites :
         world = spawn_sprite(World_new, Transform_new(V(0, 0)), s).w
    /\ instance_data = <<>>
    /\ gpu_instances = <<>>
    /\ aborted = FALSE
    /\ pending = 0
    /\ ticks = 0
    /\ Engine_new
    /\ last = Called("spawn", 0, FALSE, FALSE)

NextAnim ==
    \/ \E dt \in AnimDts : Animate(dt)
    \/ \E h \in PlayerHandles, tile \in TileInputs : WriteSprite(h, tile)
    \/ RenderFrame

SpecAnim == InitAnim /\ [][NextAnim]_vars

(* The accessors over every handle, in range or not, live or freed. *)
NextAccess ==
    \/ \E in \in SpawnInputs : Spawn(in, MaxSlots)
    \/ \E h \in Handles : Destroy(h)
    \/ \E h \in Handles, t \in TransformInputs : WriteTransform(h, t)
    \/ \E h \in Handles, tile \in TileInputs : WriteSprite(h, tile)
    \/ RenderFrame

SpecAccess == Init /\ [][NextAccess]_vars

(* Inputs of a frame: how many fixed updates it runs, their dt, whether    *)
(* the engine is paused, and the movement of the player per fixed update.  *)
FrameDts == { Rat(1, 2), F(1) }

NudgeInputs == { V(0, 0), V(3, 0) }

FrameInput(steps, dt, bounds, is_paused, nudge) ==
    [steps |-> steps, dt |-> dt, bounds |-> bounds, paused |-> is_paused,
     nudge |-> nudge]

(* Running frames of one or more fixed updates, the frame without a fixed  *)
(* update, and the frame of a paused engine with a movement key held.      *)
FrameInputs ==
    { FrameInput(steps, dt, b, FALSE, nudge) :
        steps \in 1..MaxSteps, dt \in FrameDts, b \in BoundsInputs,
        nudge \in NudgeInputs }
    \cup { FrameInput(0, F(1), b, FALSE, V(0, 0)) : b \in BoundsInputs }
    \cup { FrameInput(1, F(1), b, TRUE, V(3, 0)) : b \in BoundsInputs }

FrameBodies ==
    { Body(v, d, b) : v \in { V(10, 0), V(-8, 12) }, d \in { F(0), Rat(1, 2) },
                      b \in { Rat(1, 2) } }

(* The player of the frames' store. *)
Player == 0

(* A whole frame. *)
Redraw(in) ==
    /\ ~aborted
    /\ UNCHANGED engine
    /\ ticks + in.steps <= MaxTicks
    /\ ticks' = ticks + in.steps
    /\ last' = Called("redraw", in.steps, FALSE, FALSE)
    /\ LET frame == redraw(world, instance_data, Player, in.steps, in.dt, in.bounds,
                           in.paused, in.nudge)
       IN  IF frame.overflow
           THEN /\ aborted' = TRUE
                /\ UNCHANGED <<world, instance_data, gpu_instances, pending>>
           ELSE /\ world' = frame.w
                /\ instance_data' = frame.instance_data
                /\ gpu_instances' = instance_data'
                /\ pending' = 0
                /\ UNCHANGED aborted

(* Frames over the store the engine starts with: the player, a spinning    *)
(* child linked to the player or to the third entity, and an animated      *)
(* entity with a body.                                                     *)
InitFrame ==
    /\ \E p \in PhysicsPositions, b \in FrameBodies, parent \in { 0, 2 } :
         LET one == spawn_sprite(World_new, Transform_new(V(0, 0)), SpriteStill).w
             two == spawn_sprite(one, Transform_new(V(5, 0)), SpriteStill).w
             three == spawn_sprite_with_body(two, Transform_new(p), SpriteAnimated,
                                             Some(b)).w
         IN  world = set_parent(three, 1, parent)
    /\ instance_data = <<>>
    /\ gpu_instances = <<>>
    /\ aborted = FALSE
    /\ pending = 0
    /\ ticks = 0
    /\ Engine_new
    /\ last = Called("set_parent", 0, FALSE, FALSE)

NextFrame == \E in \in FrameInputs : Redraw(in)

SpecFrame == InitFrame /\ [][NextFrame]_vars

(* The entity the runs over every operation spawn: animated over two       *)
(* frames, with a body that full damping stops in its first step.          *)
StoreSpawnInputs ==
    { [transform |-> Transform_new(V(5, 0)),
       sprite |-> Sprite(V(1, 1), 1, <<F(1), F(0), F(0), F(1)>>, F(0),
                         Some(Animation_new(<<0, 1>>, F(1)))),
       body |-> Some(Body(V(4, -2), F(1), Rat(1, 2)))] }

StoreDts == { F(1) }

StoreHandles == 0..MaxStoreSlots

(* The first handle and the first handle the store never holds. *)
ProbeHandles == { 0, MaxStoreSlots }

(* Every operation the store offers, with handles in range and out of      *)
(* range, and fixed steps and resolution passes in between.                *)
NextStore ==
    \/ \E in \in StoreSpawnInputs : Spawn(in, MaxStoreSlots)
    \/ \E c \in StoreHandles, p \in ProbeHandles : SetParent(c, p)
    \/ \E h \in ProbeHandles, t \in TransformInputs : WriteTransform(h, t)
    \/ \E h \in ProbeHandles, tile \in TileInputs : WriteSprite(h, tile)
    \/ \E dt \in StoreDts, b \in BoundsInputs : FixedStep(dt, b)
    \/ RenderFrame

SpecStore == Init /\ [][NextStore]_vars

(* Atlas geometries a configuration file may hold: zero, small counts, and *)
(* counts whose product does not fit a u32.                                *)
AtlasCounts == { 0, 1, 2, 3, 65536, 65537 }

IndexInputs == { 0, 1, 5, 65536, 65537, 131075 }

(* reload_if_changed reads a changed configuration file. *)
ReloadAtlas(columns, rows) ==
    /\ ~aborted
    /\ assets' = [atlas |-> Atlas_from_config(columns, rows, DEFAULT_ATLAS_TILE_SIZE)]
    /\ last' = Called("reload_if_changed", 0, FALSE, FALSE)
    /\ UNCHANGED <<world, instance_data, gpu_instances, aborted, pending, ticks,
                   overflow_checks, time, input, paused, returned>>

(* A lookup of the texture coordinates of a tile. *)
UvForIndex(index) ==
    /\ ~aborted
    /\ last' = Called("uv_for_index", index, FALSE, FALSE)
    /\ IF Atlas_tile_count_panics(assets.atlas, overflow_checks)
       THEN aborted' = TRUE /\ UNCHANGED returned
       ELSE returned' = Some(Atlas_uv_for_index(assets.atlas, index))
            /\ UNCHANGED aborted
    /\ UNCHANGED <<world, instance_data, gpu_instances, pending, ticks,
                   assets, overflow_checks, time, input, paused>>

(* Lookups over every atlas geometry, in a build with and in a build       *)
(* without overflow checks.                                                *)
InitAtlas ==
    /\ world = World_new
    /\ instance_data = <<>>
    /\ gpu_instances = <<>>
    /\ aborted = FALSE
    /\ pending = 0
    /\ ticks = 0
    /\ last = Called("load", 0, FALSE, FALSE)
    /\ \E columns \in AtlasCounts, rows \in AtlasCounts :
         assets = [atlas |-> Atlas_from_config(columns, rows, DEFAULT_ATLAS_TILE_SIZE)]
    /\ overflow_checks \in BOOLEAN
    /\ time = Time_new(FIXED_DT)
    /\ input = InputState_new
    /\ paused = FALSE
    /\ returned = None

NextAtlas ==
    \/ \E columns \in AtlasCounts, rows \in AtlasCounts : ReloadAtlas(columns, rows)
    \/ \E index \in IndexInputs : UvForIndex(index)

SpecAtlas == InitAtlas /\ [][NextAtlas]_vars

WORLD_BOUNDS == V(520, 320)

(* The head of fixed_update: the pause key toggles the flag. *)
toggle_pause(flag, in) ==
    IF InputState_is_just_pressed(in, "KeyP") THEN ~flag ELSE flag

(* The loop `for _ in 0..steps` of redraw over the store and the paused    *)
(* flag (state.w, state.paused), with no movement key held.                *)
RECURSIVE Engine_fixed_updates(_, _, _, _)
Engine_fixed_updates(state, in, steps, dt) ==
    IF steps = 0
    THEN state
    ELSE LET now == toggle_pause(state.paused, in)
             next == [paused |-> now,
                      w |-> fixed_update(state.w, Player, dt, WORLD_BOUNDS, now,
                                         V(0, 0))]
         IN  Engine_fixed_updates(next, in, steps - 1, dt)

(* Keys the window reports: pause and help. *)
Keys == { "KeyP", "KeyH" }

(* Times between two frames: none, half a step, steps, the cap, a stall.   *)
ElapsedInputs == { F(0), Rat(1, 120), Rat(1, 60), Rat(1, 30), MAX_DT, F(10) }

(* Fixed steps a clock is built with: the engine's, one that does not      *)
(* divide the cap, and one longer than the cap.                            *)
FixedDtInputs == { FIXED_DT, Rat(1, 10), Rat(1, 2) }

(* handle_key: a key event of the window. *)
HandleKey(key, pressed) ==
    /\ ~aborted
    /\ input' = InputState_set_key(input, key, pressed)
    /\ last' = Called("handle_key", key, FALSE, FALSE)
    /\ UNCHANGED <<world, instance_data, gpu_instances, aborted, pending, ticks,
                   assets, overflow_checks, time, paused, returned>>

(* redraw with its clock and its input: the clock advances by the elapsed  *)
(* time, the fixed updates it grants run, the records are collected and    *)
(* finish_frame forgets the transitions.  `returned` is the number of      *)
(* fixed updates the frame ran.                                            *)
Frame(elapsed) ==
    /\ ~aborted
    /\ last' = Called("redraw", elapsed, FALSE, FALSE)
    /\ LET advanced == Time_advance(time, elapsed)
           consumed == Time_consume_fixed_steps(advanced.time)
           updated == Engine_fixed_updates([w |-> world, paused |-> paused], input,
                                           consumed.steps, consumed.time.fixed_dt)
           pass == for_each_sprite_world(updated.w)
       IN  /\ time' = consumed.time
           /\ returned' = Some(consumed.steps)
           /\ paused' = updated.paused
           /\ IF pass.overflow
              THEN /\ aborted' = TRUE
                   /\ UNCHANGED <<world, instance_data, gpu_instances, pending, input>>
              ELSE /\ world' = pass.w
                   /\ instance_data' = collect_instances(instance_data, pass.visits)
                   /\ gpu_instances' = instance_data'
                   /\ pending' = 0
                   /\ input' = InputState_finish_frame(input)
                   /\ UNCHANGED aborted
    /\ UNCHANGED <<ticks, assets, overflow_checks>>

(* The engine with its player, over every fixed step of the clock. *)
InitEngine ==
    /\ world = spawn_sprite(World_new, Transform_new(V(0, 0)), SpriteStill).w
    /\ instance_data = <<>>
    /\ gpu_instances = <<>>
    /\ aborted = FALSE
    /\ pending = 0
    /\ ticks = 0
    /\ last = Called("new", 0, FALSE, FALSE)
    /\ assets = [atlas |-> atlas]
    /\ overflow_checks = FALSE
    /\ \E fixed_dt \in FixedDtInputs : time = Time_new(fixed_dt)
    /\ input = InputState_new
    /\ paused = FALSE
    /\ returned = None

NextEngine ==
    \/ \E key \in Keys, pressed \in BOOLEAN : HandleKey(key, pressed)
    \/ \E elapsed \in ElapsedInputs : Frame(elapsed)

SpecEngine == InitEngine /\ [][NextEngine]_vars

----------------------------------------------------------------------------
(* Properties *)

Slots(w) == 0..(Len(w.transforms) - 1)

Local(w, h) == Unwrap(w.transforms[h + 1])

Cached(w, h) == w.world_cache[h + 1]

Link(w, h) == w.parents[h + 1]

(* The state right after a resolution pass that ran to completion. *)
AfterPass == last.op = "for_each_sprite_world" /\ ~aborted

(* C1: when a spawn recycles a freed handle, the slot's parent link and    *)
(* cached world transform are absent right after it and its body is        *)
(* exactly the body passed to that spawn.                                  *)
C1_ReuseClean ==
    [][\A in \in SpawnInputs :
         (Spawn(in, MaxSlots) /\ world.free # <<>>) =>
            LET e == world.free[Len(world.free)]
            IN  /\ last'.arg = e
                /\ world'.parents[e + 1] = None
                /\ world'.world_cache[e + 1] = None
                /\ world'.bodies[e + 1] = in.body]_vars

(* A spawn without a body has just recycled a slot that still held a       *)
(* parent link.                                                            *)
C1_Witness ==
    /\ last.op = "spawn" /\ last.reused /\ last.stale
    /\ world.bodies[last.arg + 1] = None
    /\ Live(world, last.arg)

(* C2: after every completed resolution pass the cache holds a value for   *)
(* every live slot and is absent for every slot that is not live.          *)
C2_CacheMatchesLive ==
    AfterPass =>
        \A h \in Slots(world) : IsSome(Cached(world, h)) <=> Live(world, h)

(* A completed pass over a store with a live slot and a freed slot. *)
C2_Witness ==
    /\ AfterPass
    /\ \E h \in Slots(world) : Live(world, h) /\ IsSome(Cached(world, h))
    /\ \E h \in Slots(world) : ~Live(world, h)

(* world = parent-world o local, as the claim spells it. *)
Composed(pw, l) ==
    LET sx == Mul(l.position.x, pw.scale.x)
        sy == Mul(l.position.y, pw.scale.y)
        c == Cos(pw.rotation)
        n == Sin(pw.rotation)
    IN  [position |-> [x |-> Add(pw.position.x, Sub(Mul(sx, c), Mul(sy, n))),
                       y |-> Add(pw.position.y, Add(Mul(sx, n), Mul(sy, c)))],
         rotation |-> Add(pw.rotation, l.rotation),
         scale |-> [x |-> Mul(pw.scale.x, l.scale.x), y |-> Mul(pw.scale.y, l.scale.y)]]

(* C3: after a completed pass, a live child of a different live parent     *)
(* has world = combine(world(parent), local), whichever handle is smaller, *)
(* and an entity without a parent link has world = local.                  *)
C3_ChildComposesParent ==
    AfterPass =>
        \A c \in Slots(world) :
            Live(world, c) =>
                IF ~IsSome(Link(world, c))
                THEN Cached(world, c) = Some(Local(world, c))
                ELSE LET p == Unwrap(Link(world, c))
                     IN  (p # c /\ Live(world, p)) =>
                            /\ IsSome(Cached(world, p))
                            /\ Cached(world, c)
                                 = Some(Composed(Unwrap(Cached(world, p)), Local(world, c)))

(* The child has the smaller handle: parent 1 at (10,0), child 0 at local  *)
(* (5,0), both unrotated and unscaled, and the child resolved to (15,0).   *)
C3_Witness ==
    /\ AfterPass
    /\ Len(world.transforms) = 2
    /\ Live(world, 0) /\ Live(world, 1)
    /\ Link(world, 0) = Some(1)
    /\ Local(world, 1) = Transform_new(V(10, 0))
    /\ Local(world, 0) = Transform_new(V(5, 0))
    /\ Unwrap(Cached(world, 0)).position = V(15, 0)

(* C4: in every resolution pass a live entity whose parent link is its own *)
(* handle resolves to its local transform, and the pass completes.         *)
C4_SelfParentResolves ==
    \A e \in Slots(world) :
        (/\ last.op = "for_each_sprite_world"
         /\ Live(world, e)
         /\ Link(world, e) = Some(e))
        => (~aborted /\ Cached(world, e) = Some(Local(world, e)))

(* C5: in every resolution pass a live child whose parent link names a     *)
(* handle out of range or a freed slot resolves to its local transform,    *)
(* and the pass ends without a failure.                                    *)
C5_DanglingFallsBack ==
    \A c \in Slots(world) :
        (/\ last.op = "for_each_sprite_world"
         /\ Live(world, c)
         /\ IsSome(Link(world, c))
         /\ ~Live(world, Unwrap(Link(world, c))))
        => (~aborted /\ Cached(world, c) = Some(Local(world, c)))

(* C6: a second pass right after a completed one, with no store operation  *)
(* in between, changes nothing and makes the same visitor calls.           *)
C6_SecondPassSame ==
    AfterPass =>
        LET again == for_each_sprite_world(world)
        IN  /\ ~again.overflow
            /\ again.w = world
            /\ again.visits = visit_from(world, 0)
            /\ collect_instances(instance_data, again.visits) = instance_data

(* A completed pass in which a child was composed with its parent. *)
C6_Witness ==
    /\ AfterPass
    /\ \E c \in Slots(world) :
         /\ Live(world, c)
         /\ IsSome(Link(world, c))
         /\ Cached(world, c) # Some(Local(world, c))

(* The handles with both a Transform and a Sprite, and the k-th smallest.  *)
Renderable(w) ==
    { h \in Slots(w) : IsSome(w.transforms[h + 1]) /\ IsSome(w.sprites[h + 1]) }

NthHandle(S, k) == CHOOSE h \in S : Cardinality({ x \in S : x < h }) = k - 1

(* C7: the instance list handed to the renderer in a frame holds exactly   *)
(* one record for each slot with both a Transform and a Sprite, in         *)
(* ascending handle order, and nothing else.                               *)
C7_InstancesExact ==
    AfterPass =>
        /\ gpu_instances = instance_data
        /\ Len(instance_data) = Cardinality(Renderable(world))
        /\ \A k \in 1..Len(instance_data) :
             LET h == NthHandle(Renderable(world), k)
             IN  instance_data[k]
                   = InstanceRaw_from_components(Unwrap(Cached(world, h)),
                                                 Unwrap(world.sprites[h + 1]), atlas)

(* A frame over a store of two slots, the first of them freed, in which    *)
(* one record is handed over.                                              *)
C7_Witness ==
    /\ AfterPass
    /\ Len(world.transforms) = 2
    /\ ~Live(world, 0) /\ Live(world, 1)
    /\ Len(gpu_instances) = 1

(* C8: every fixed step and every resolution pass runs to completion, in   *)
(* every reachable store state.                                            *)
C8_AlwaysCompletes == ~aborted

(* The slots step_physics integrates: those holding a transform and a body. *)
Integrated(w) ==
    { h \in Slots(w) : IsSome(w.transforms[h + 1]) /\ IsSome(w.bodies[h + 1]) }

BodyOf(w, h) == Unwrap(w.bodies[h + 1])

(* A coordinate strictly inside its bound: no collision wrote the axis. *)
Inside(p, b) == Lt(Neg(b), p) /\ Lt(p, b)

(* A velocity component that kept its sign (or became zero) and did not    *)
(* grow in magnitude.                                                      *)
Damped(before, after) ==
    /\ Le(F(0), Mul(before, after))
    /\ Le(AbsF(after), AbsF(before))

(* C9: over a fixed step, a body whose damping * dt is at least 1 ends     *)
(* with velocity exactly zero on both axes, and on every axis that no      *)
(* collision wrote, the velocity component keeps its sign (or becomes      *)
(* zero) and does not grow in magnitude.                                   *)
C9_DampingClamped ==
    [][\A dt \in FixedDts, b \in BoundsInputs :
         FixedStep(dt, b) =>
            \A h \in Integrated(world) :
               LET before == BodyOf(world, h)
                   after == BodyOf(world', h).velocity
                   position == Local(world', h).position
               IN  /\ Le(F(1), Mul(before.damping, dt)) => after = V(0, 0)
                   /\ Inside(position.x, b.x) => Damped(before.velocity.x, after.x)
                   /\ Inside(position.y, b.y) => Damped(before.velocity.y, after.y)]_vars

(* One fixed step with dt = 1 over a body of damping 10 that started       *)
(* moving: its velocity is zero.                                           *)
C9_Witness ==
    /\ last.op = "fixed_update" /\ last.arg = F(1)
    /\ ticks = 1
    /\ \E h \in Integrated(world) :
         /\ BodyOf(world, h).damping = F(10)
         /\ BodyOf(world, h).velocity = V(0, 0)

(* The entity of the bounce example before its step: at (105,0), moving    *)
(* along x at speed 10 in either direction, bounce 1/2, no damping.        *)
BounceExample(w, h) ==
    /\ Local(w, h).position = V(105, 0)
    /\ AbsF(BodyOf(w, h).velocity.x) = F(10)
    /\ BodyOf(w, h).velocity.y = F(0)
    /\ BodyOf(w, h).bounce = Rat(1, 2)
    /\ BodyOf(w, h).damping = F(0)

(* C10: the entity of the bounce example, stepped once within bounds       *)
(* (100,100), ends with position.x = 100 and velocity.x = -5 (inward at    *)
(* the upper bound, magnitude * bounce), whatever the sign of its incoming *)
(* velocity, whenever the integrated position is still beyond the bound.   *)
C10_BounceInward ==
    [][\A dt \in FixedDts, b \in BoundsInputs :
         FixedStep(dt, b) =>
            \A h \in Integrated(world) :
               ( /\ BounceExample(world, h)
                 /\ b = V(100, 100)
                 /\ Lt(b.x, Add(Local(world, h).position.x,
                                Mul(BodyOf(world, h).velocity.x, dt))) )
               => /\ Local(world', h).position.x = F(100)
                  /\ BodyOf(world', h).velocity.x = F(-5)]_vars

(* The bounce example after its one step. *)
C10_Witness ==
    /\ last.op = "fixed_update"
    /\ ticks = 1
    /\ \E h \in Integrated(world) :
         /\ Local(world, h).position = V(100, 0)
         /\ BodyOf(world, h).velocity = V(-5, 0)
         /\ BodyOf(world, h).bounce = Rat(1, 2)
         /\ BodyOf(world, h).damping = F(0)

(* C10 as stated: the example ends with position.x = 100 and               *)
(* velocity.x = +5, regardless of the sign of the incoming velocity.       *)
C10_AsStated ==
    [][\A dt \in FixedDts, b \in BoundsInputs :
         FixedStep(dt, b) =>
            \A h \in Integrated(world) :
               (BounceExample(world, h) /\ b = V(100, 100))
               => /\ Local(world', h).position.x = F(100)
                  /\ BodyOf(world', h).velocity.x = F(5)]_vars

(* The slots update_animations visits: those holding a transform and a     *)
(* sprite.                                                                 *)
Drawn(w) ==
    { h \in Slots(w) : IsSome(w.transforms[h + 1]) /\ IsSome(w.sprites[h + 1]) }

SpriteOf(w, h) == Unwrap(w.sprites[h + 1])

(* The slots of Drawn whose sprite owns an animation. *)
Animated(w) == { h \in Drawn(w) : IsSome(SpriteOf(w, h).animation) }

AnimOf(w, h) == Unwrap(SpriteOf(w, h).animation)

(* An animation that runs: it has frames and a positive rate. *)
Runs(a) == a.frames # <<>> /\ Lt(F(0), a.fps)

(* The number of whole frame intervals in a time t at rate fps. *)
WholeFrames(t, fps) == LET r == Mul(t, fps) IN r[1] \div r[2]

C12_AccessorsAbsentOrOwn ==
    [][/\ \A h \in Handles, t \in TransformInputs :
            WriteTransform(h, t) =>
               IF Live(world, h)
               THEN world' = [world EXCEPT !.transforms[h + 1] = Some(t)]
               ELSE get_transform_mut(world, h) = None /\ world' = world
       /\ \A h \in Handles, tile \in TileInputs :
            WriteSprite(h, tile) =>
               IF Live(world, h)
               THEN /\ SpriteOf(world', h) = [SpriteOf(world, h) EXCEPT !.tile_index = tile]
                    /\ world' = [world EXCEPT !.sprites[h + 1] = world'.sprites[h + 1]]
               ELSE get_sprite_mut(world, h) = None /\ world' = world]_vars

(* An accessor was just called on the handle of a freed slot, in a store   *)
(* that also holds a live slot.                                            *)
C12_Witness ==
    /\ last.op = "get_sprite_mut"
    /\ last.arg = 0
    /\ Len(world.transforms) = 2
    /\ ~Live(world, 0) /\ Live(world, 1)
    /\ world.free = <<0>>

(* C13: set_parent(child, parent) leaves the store as it was when child is *)
(* out of range; otherwise the child's parent link is parent, the child's  *)
(* cache entry is absent, and nothing else in the store has changed.       *)
C13_SetParentTouchesChildOnly ==
    [][\A child \in Handles, parent \in Handles :
         (last'.op = "set_parent" /\ SetParent(child, parent)) =>
            IF child >= Len(world.transforms)
            THEN world' = world
            ELSE /\ world'.parents[child + 1] = Some(parent)
                 /\ world'.world_cache[child + 1] = None
                 /\ world' = [world EXCEPT
                                 !.parents[child + 1] = Some(parent),
                                 !.world_cache[child + 1] = None]]_vars

(* A set_parent has just linked a child whose cache entry is gone to a     *)
(* parent whose cache entry is still there.                                *)
C13_Witness ==
    /\ last.op = "set_parent"
    /\ \E c \in Slots(world), p \in Slots(world) :
         /\ c # p
         /\ Link(world, c) = Some(p)
         /\ Cached(world, c) = None
         /\ IsSome(Cached(world, p))

(* Everything the store holds for handle h. *)
SlotData(w, h) ==
    <<w.transforms[h + 1], w.sprites[h + 1], w.bodies[h + 1],
      w.parents[h + 1], w.world_cache[h + 1]>>

(* C14: a spawn returns a handle whose slot is live and holds exactly the  *)
(* given transform, sprite and body.  With an empty free list the handle   *)
(* is the previous slot count and the store grows by one slot; otherwise   *)
(* the handle is the last entry of the free list, which loses that entry,  *)
(* and the slot count stays.  No other slot is changed.                    *)
C14_SpawnReturnsFreshSlot ==
    [][\A in \in SpawnInputs :
         Spawn(in, MaxSlots) =>
            LET e == last'.arg
                count == Len(world.transforms)
            IN  /\ Live(world', e)
                /\ world'.transforms[e + 1] = Some(in.transform)
                /\ world'.sprites[e + 1] = Some(in.sprite)
                /\ world'.bodies[e + 1] = in.body
                /\ IF world.free = <<>>
                   THEN /\ e = count
                        /\ Len(world'.transforms) = count + 1
                        /\ world'.free = <<>>
                   ELSE /\ e = world.free[Len(world.free)]
                        /\ Len(world'.transforms) = count
                        /\ world'.free = SubSeq(world.free, 1, Len(world.free) - 1)
                /\ \A h \in Slots(world) \ {e} : SlotData(world', h) = SlotData(world, h)]_vars

(* A spawn has just recycled the handle freed last of two freed handles:   *)
(* handle 0 was freed first and is still on the free list.                 *)
C14_Witness ==
    /\ last.op = "spawn" /\ last.reused
    /\ last.arg = 1
    /\ world.free = <<0>>
    /\ Live(world, 1) /\ ~Live(world, 0)

(* The live parent of a live entity linked to another entity, or -1. *)
ParentStep(w, h) ==
    IF /\ h >= 0 /\ Live(w, h) /\ IsSome(Link(w, h))
       /\ Unwrap(Link(w, h)) # h /\ Live(w, Unwrap(Link(w, h)))
    THEN Unwrap(Link(w, h))
    ELSE -1

(* The entity k parent links above h, or -1. *)
RECURSIVE Follow(_, _, _)
Follow(w, h, k) == IF k = 0 THEN h ELSE Follow(w, ParentStep(w, h), k - 1)

(* The parent links of two or more distinct live entities form a cycle. *)
HasCycle(w) ==
    \E h \in Slots(w) : \E k \in 2..Len(w.transforms) : Follow(w, h, k) = h

(* C15: a resolution pass over a store in which the parent links of two or *)
(* more distinct live entities form a cycle does not complete.             *)
C15_CycleNeverCompletes ==
    [][(RenderFrame /\ HasCycle(world)) => aborted']_vars

(* A pass has run into the cycle 0 -> 1 -> 2 -> 0. *)
C15_Witness ==
    /\ aborted
    /\ Len(world.transforms) = 3
    /\ Link(world, 0) = Some(1)
    /\ Link(world, 1) = Some(2)
    /\ Link(world, 2) = Some(0)

(* How many times index h occurs in the sequence of stores t. *)
Times(t, h) == Cardinality({ i \in 1..Len(t) : t[i] = h })

(* C16: in a resolution pass that completes, the world transform of every  *)
(* live entity is computed and stored exactly once and that of any other   *)
(* slot never, however many children and loop iterations request it.       *)
C16_ComputedAtMostOnce ==
    [][RenderFrame =>
         LET pass == build_world_transforms(world)
         IN  ~pass.overflow =>
                /\ world' = pass.w
                /\ \A h \in Slots(world) :
                     Times(pass.stored, h) = IF Live(world, h) THEN 1 ELSE 0]_vars

(* A completed pass in which entity 2 was requested by its two children,   *)
(* both visited before it, and by the loop itself.                         *)
C16_Witness ==
    /\ AfterPass
    /\ Len(world.transforms) = 3
    /\ Link(world, 0) = Some(2)
    /\ Link(world, 1) = Some(2)
    /\ Link(world, 2) = None
    /\ build_world_transforms(world).stored = <<2, 0, 1>>

(* What the claim asks of one axis: position p1 and velocity v1 after the  *)
(* step, from the integrated position p, the damped velocity v, the bound  *)
(* b and the bounce coefficient.                                           *)
AxisRule(p, v, b, bounce, p1, v1) ==
    IF Lt(p, Neg(b))
    THEN p1 = Neg(b) /\ v1 = Mul(AbsF(v), bounce) /\ Le(F(0), v1)
    ELSE IF Lt(b, p)
    THEN p1 = b /\ v1 = Neg(Mul(AbsF(v), bounce)) /\ Le(v1, F(0))
    ELSE p1 = p /\ v1 = v

(* C17: over a fixed step, every slot with transform and body has, on each *)
(* axis by itself, its position set to the bound it went beyond and its    *)
(* velocity to |velocity| * bounce pointing inward, or else the integrated *)
(* position and the damped velocity; a slot without a body keeps its       *)
(* position, its body and everything else step_physics could write.        *)
C17_BoundaryPerAxis ==
    [][\A dt \in FixedDts, b \in BoundsInputs :
         FixedStep(dt, b) =>
            /\ \A h \in Integrated(world) :
                  LET body == BodyOf(world, h)
                      v == VScale(body.velocity, damping_factor(body, dt))
                      p == VAdd(Local(world, h).position, VScale(v, dt))
                      p1 == Local(world', h).position
                      v1 == BodyOf(world', h).velocity
                  IN  /\ AxisRule(p.x, v.x, b.x, body.bounce, p1.x, v1.x)
                      /\ AxisRule(p.y, v.y, b.y, body.bounce, p1.y, v1.y)
                      /\ BodyOf(world', h) = [body EXCEPT !.velocity = v1]
                      /\ Local(world', h).scale = Local(world, h).scale
            /\ \A h \in Slots(world) \ Integrated(world) :
                  /\ world'.bodies[h + 1] = world.bodies[h + 1]
                  /\ Live(world, h) =>
                        /\ Local(world', h).position = Local(world, h).position
                        /\ Local(world', h).scale = Local(world, h).scale]_vars

(* A step has put a body beyond the lower x bound and the upper y bound at *)
(* once: it sits in the corner (-100,100) and moves inward on both axes.   *)
C17_Witness ==
    /\ last.op = "fixed_update"
    /\ \E h \in Integrated(world) :
         /\ Local(world, h).position = V(-100, 100)
         /\ BodyOf(world, h).velocity = V(4, -6)
    /\ \E h \in Slots(world) : Live(world, h) /\ world.bodies[h + 1] = None

(* C18: an update of an animation with no frames or with fps <= 0 leaves   *)
(* its current and timer as they were and does not write the sprite's      *)
(* tile_index, whatever dt is.                                             *)
C18_IdleAnimationUntouched ==
    [][\A dt \in AnimDts :
         Animate(dt) =>
            \A h \in Animated(world) :
               ~Runs(AnimOf(world, h)) =>
                  /\ AnimOf(world', h).current = AnimOf(world, h).current
                  /\ AnimOf(world', h).timer = AnimOf(world, h).timer
                  /\ SpriteOf(world', h).tile_index = SpriteOf(world, h).tile_index
                  /\ SpriteOf(world', h) = SpriteOf(world, h)]_vars

(* An update has passed over an animation with frames and fps = 0 whose    *)
(* sprite still shows the tile it was created with.                        *)
C18_Witness ==
    /\ last.op = "update_animations"
    /\ \E h \in Animated(world) :
         /\ AnimOf(world, h).frames = <<3, 1, 2>>
         /\ AnimOf(world, h).fps = F(0)
         /\ SpriteOf(world, h).tile_index = 9

(* C19: every update of an animation that has frames and a positive fps    *)
(* sets the sprite's tile_index to frames[current], also when no frame     *)
(* step occurred in that update and the tile_index had been overwritten.   *)
C19_RunningFrameReasserted ==
    [][\A dt \in AnimDts :
         Animate(dt) =>
            \A h \in Animated(world) :
               Runs(AnimOf(world, h)) =>
                  SpriteOf(world', h).tile_index
                    = AnimOf(world', h).frames[AnimOf(world', h).current + 1]]_vars

(* An update without a frame step has put back frames[0] = 3 over a        *)
(* tile_index a caller had written.                                        *)
C19_Witness ==
    /\ last.op = "update_animations" /\ last.arg = Rat(1, 4)
    /\ pending = 1
    /\ \E h \in Animated(world) :
         /\ AnimOf(world, h).frames = <<3, 1, 2>>
         /\ AnimOf(world, h).fps = F(2)
         /\ AnimOf(world, h).current = 0
         /\ AnimOf(world, h).timer = Rat(1, 4)
         /\ SpriteOf(world, h).tile_index = 3

(* C19 as stated: every update of an animation that has frames sets the    *)
(* sprite's tile_index to frames[current].                                 *)
C19_AsStated ==
    [][\A dt \in AnimDts :
         Animate(dt) =>
            \A h \in Animated(world) :
               AnimOf(world, h).frames # <<>> =>
                  SpriteOf(world', h).tile_index
                    = AnimOf(world', h).frames[AnimOf(world', h).current + 1]]_vars

(* The world transform the records must show for h, from the local         *)
(* transforms of the store: composed with the parent's for an entity       *)
(* linked to a live root, its own otherwise.                               *)
Shown(w, h) ==
    IF IsSome(Link(w, h)) /\ Unwrap(Link(w, h)) # h /\ Live(w, Unwrap(Link(w, h)))
    THEN Composed(Local(w, Unwrap(Link(w, h))), Local(w, h))
    ELSE Local(w, h)

(* C20: at the end of every frame the store holds the transforms, sprites  *)
(* and bodies its fixed updates left, and the records handed to the        *)
(* renderer are those of exactly these transforms and sprites, composed    *)
(* through the hierarchy.                                                  *)
C20_RecordsShowLastFixedUpdate ==
    [][\A in \in FrameInputs :
         (Redraw(in) /\ ~aborted') =>
            LET after == fixed_updates(world, Player, in.steps, in.dt, in.bounds,
                                       in.paused, in.nudge)
            IN  /\ world'.transforms = after.transforms
                /\ world'.sprites = after.sprites
                /\ world'.bodies = after.bodies
                /\ gpu_instances' = instance_data'
                /\ Len(gpu_instances') = Len(world'.transforms)
                /\ \A h \in Slots(world') :
                     gpu_instances'[h + 1]
                       = InstanceRaw_from_components(Shown(world', h),
                                                     SpriteOf(world', h), atlas)]_vars

(* A running frame of two fixed updates has moved the player to (6,0), and *)
(* the record of its child, at local (5,0), shows (11,0).                  *)
C20_Witness ==
    /\ last.op = "redraw" /\ last.arg = 2
    /\ Link(world, 1) = Some(0)
    /\ Local(world, 0).position = V(6, 0)
    /\ Len(gpu_instances) = 3
    /\ gpu_instances[2].position = <<F(11), F(0)>>

(* C21: for every tile index and every atlas geometry, the lookup of the   *)
(* texture coordinates never fails and selects the tile of column          *)
(* idx mod columns and row idx / columns, idx = index mod (columns * rows),*)
(* which is column index mod columns and row (index / columns) mod rows.   *)
C21_LookupTotal ==
    last.op = "uv_for_index" =>
      /\ ~aborted
      /\ IsSome(returned)
      /\ LET columns == assets.atlas.columns
             rows == assets.atlas.rows
             tile_x == last.arg % columns
             tile_y == (last.arg \div columns) % rows
         IN  Unwrap(returned) =
               [min |-> Vec2(Rat(tile_x, columns), Rat(tile_y, rows)),
                max |-> Vec2(Rat(tile_x + 1, columns), Rat(tile_y + 1, rows))]

(* The live entity c holds a parent link that names another slot p. *)
LinkedTo(w, c, p) ==
    /\ c \in Slots(w)
    /\ p \in Slots(w)
    /\ c # p
    /\ Live(w, c)
    /\ Link(w, c) = Some(p)

(* A resolution pass over w, when it runs to completion, leaves the world  *)
(* transform of c as the local transform of c (p is free) or as the local  *)
(* transform of c composed with the world transform of p (p is live).      *)
ResolvesUnder(w, c, p) ==
    LET pass == for_each_sprite_world(w)
    IN  \/ pass.overflow
        \/ Cached(pass.w, c) =
             Some(IF Live(w, p)
                  THEN Composed(Unwrap(Cached(pass.w, p)), Local(w, c))
                  ELSE Local(w, c))

(* C22: freeing an entity does not sever the parent links that name it.    *)
(* Across every step that is not a set_parent call (the free of p, every   *)
(* step while slot p is free, the spawn that recycles p, every pass), a    *)
(* live child c linked to p keeps its link; a pass then resolves c to its  *)
(* local transform while slot p is free, and to combine(world of the       *)
(* occupant of p, local(c)) once p is occupied again.                      *)
C22_LinksSurviveFree ==
    [][\A c \in Slots(world), p \in Slots(world) :
         (LinkedTo(world, c, p) /\ Live(world', c) /\ last'.op # "set_parent") =>
           /\ Link(world', c) = Some(p)
           /\ ResolvesUnder(world', c, p)]_vars

(* A spawn has recycled the handle that the link of a live child names. *)
C22_Witness ==
    /\ last.op = "spawn"
    /\ last.reused
    /\ \E c \in Slots(world) : LinkedTo(world, c, last.arg)

(* The whole part of a time that is not negative. *)
Floor(t) == t[1] \div t[2]

(* The most fixed updates the cap lets one frame run. *)
StepsCap(t) == Floor(Mul(MAX_DT, Recip(t.fixed_dt))) + 1

(* C23: consume_fixed_steps leaves the accumulator below fixed_dt, and no  *)
(* frame runs more than floor(MAX_DT / fixed_dt) + 1 fixed updates,        *)
(* however long the time since the frame before it.                        *)
C23_StepsCapped ==
    /\ Lt(time.accumulator, time.fixed_dt)
    /\ last.op = "redraw" => Unwrap(returned) <= StepsCap(time)

(* A frame after a stall of ten seconds runs as many fixed updates as the  *)
(* cap allows.                                                             *)
C23_Witness ==
    /\ last.op = "redraw"
    /\ last.arg = F(10)
    /\ Unwrap(returned) = StepsCap(time)

(* C24: a frame that observes a key-down transition of the pause key       *)
(* changes the paused flag exactly once, whatever number of fixed updates  *)
(* it runs.                                                                *)
C24_PressTogglesOnce ==
    [][(last'.op = "redraw" /\ InputState_is_just_pressed(input, "KeyP")) =>
         paused' = ~paused]_vars

(* C25: after any sequence of spawn, set_parent, accessor, physics,        *)
(* animation and resolution operations the five slot arrays have the same  *)
(* length, so an index in range of one is in range of all.                 *)
C25_SlotArraysAligned ==
    /\ Len(world.sprites) = Len(world.transforms)
    /\ Len(world.bodies) = Len(world.transforms)
    /\ Len(world.parents) = Len(world.transforms)
    /\ Len(world.world_cache) = Len(world.transforms)

(* A store grown to its bound, one slot with a parent link, after a fixed  *)
(* step and a resolution pass.                                             *)
C25_Witness ==
    /\ AfterPass
    /\ ticks > 0
    /\ Len(world.transforms) = MaxStoreSlots
    /\ \E h \in Slots(world) : IsSome(Link(world, h))
====
